---- MODULE Spec2Model ----
(***************************************************************************)
(* State-machine model of src/src/main.rs (rob-game): one Bevy App with    *)
(* the systems apply_kinematics (FixedUpdate), animate_sprites and         *)
(* get_player_input (Update) acting on the single player entity, and the   *)
(* system update_camera, which main does not register.                     *)
(*                                                                         *)
(* Numbers.  f32 values (velocity, input vector) are fixed-point integers  *)
(* with Scale units per 1.0, every product rounded to nearest.  Time is    *)
(* counted in units of 1/TicksPerSecond s = 3.125 ms, the largest unit in  *)
(* which both the 0.1 s animation timer (32 units) and Bevy's default      *)
(* 1/64 s fixed timestep (5 units) are whole numbers.                      *)
(***************************************************************************)
EXTENDS Integers, FiniteSets, Sequences, TLC

VARIABLES
    pc,             \* position of the frame loop: Startup, FixedUpdate, Update, FrameEnd
    keys,           \* ButtonInput<KeyCode>: the set of keys pressed during this frame
    delta,          \* Time::delta of this frame, in time units
    fixedDue,       \* number of FixedUpdate passes this frame has to run
    fixedDone,      \* number of FixedUpdate passes this frame has completed
    ran,            \* systems already run in the current pass of the current schedule
    runs,           \* per system: executions during the current frame
    lastSched,      \* per system: schedule of its latest execution ("none" before)
    face,           \* FaceDirection.0
    is_walking,     \* MoveSettings.is_walking
    vel,            \* Velocity.0
    raw_input,      \* get_player_input's input_vector before normalize_or_zero
    input_vector,   \* get_player_input's input_vector after normalize_or_zero
    translation,    \* KinematicCharacterController.translation ("None" or a vector)
    index,          \* TextureAtlas.index
    elapsed,        \* AnimationTimer: elapsed time of the running interval
    times_finished, \* AnimationTimer: intervals completed by the latest tick
    expFace,        \* history: facing in force at the latest timer expiry
    expWalk,        \* history: gait in force at the latest timer expiry
    expKind,        \* history: "none" before any expiry, else "first", "same" or
                    \* "changed" (facing/gait compared with the expiry before)
    camera,         \* Transform.translation of the camera entity
    world           \* the entities of the World: entity id -> set of its components

vars == <<pc, keys, delta, fixedDue, fixedDone, ran, runs, lastSched,
          face, is_walking, vel, raw_input, input_vector, translation, index,
          elapsed, times_finished, expFace, expWalk, expKind, camera, world>>

\* the state no system of the frame loop writes
scene == <<camera, world>>

----------------------------------------------------------------------------
(* Representation *)

Scale == 1000
TicksPerSecond == 320

\* Largest velocity component explored (fixed-point, 20.0)
VelBound == 20000

Abs(n) == IF n < 0 THEN -n ELSE n

\* a / b rounded to nearest (b > 0), symmetric about zero
RoundDiv(a, b) == IF a >= 0 THEN (2 * a + b) \div (2 * b)
                            ELSE -((2 * (-a) + b) \div (2 * b))

RECURSIVE SqrtIter(_, _)
SqrtIter(n, r) == LET q == (r + n \div r) \div 2
                  IN  IF q >= r THEN r ELSE SqrtIter(n, q)

\* floor of the square root
ISqrt(n) == IF n = 0 THEN 0 ELSE SqrtIter(n, n)

\* square root rounded to nearest
Sqrt(n) == LET r == ISqrt(n) IN IF n - r * r > r THEN r + 1 ELSE r

Vec(x, y) == [x |-> x, y |-> y]
ZERO == Vec(0, 0)
LengthSq(v) == v.x * v.x + v.y * v.y

----------------------------------------------------------------------------
(* Program constants *)

FacingDirection == {"LEFT", "RIGHT", "UP", "DOWN"}
KeyCodes == {"KeyA", "KeyD", "KeyW", "KeyS"}
Systems == {"apply_kinematics", "animate_sprites", "get_player_input", "update_camera"}

Speed == 5
Accel == 20
Fric == 15
TimerDuration == 32
FixedTimestep == 5
LerpFactor == 2

\* slip: get_player_input registered next to apply_kinematics
ScheduleOf_InputFixed(sys) ==
    IF sys \in {"apply_kinematics", "get_player_input"} THEN "FixedUpdate"
    ELSE IF sys = "animate_sprites" THEN "Update"
    ELSE "Unscheduled"

\* add_systems: the schedule each system is registered in; update_camera is
\* commented out of the FixedUpdate tuple and so is in no schedule
ScheduleOf(sys) ==
    IF sys = "apply_kinematics" THEN "FixedUpdate"
    ELSE IF sys \in {"animate_sprites", "get_player_input"} THEN "Update"
    ELSE "Unscheduled"
SystemsOf(sched) == {s \in Systems : ScheduleOf(s) = sched}

\* AnimationInd: base offsets into the 8x8 atlas
WalkBase(f) == CASE f = "RIGHT" -> 0
                 [] f = "LEFT"  -> 8
                 [] f = "UP"    -> 24
                 [] f = "DOWN"  -> 16
IdleBase(f) == CASE f = "RIGHT" -> 32
                 [] f = "LEFT"  -> 40
                 [] f = "UP"    -> 56
                 [] f = "DOWN"  -> 48

----------------------------------------------------------------------------
(* get_player_input *)

\* slip: the keys add to the axis instead of overwriting it
RawInput_Accumulate(k) ==
    LET x1 == IF "KeyA" \in k THEN -Scale ELSE 0
        x2 == IF "KeyD" \in k THEN x1 + Scale ELSE x1
        y1 == IF "KeyW" \in k THEN Scale ELSE 0
        y2 == IF "KeyS" \in k THEN y1 - Scale ELSE y1
    IN  Vec(x2, y2)

\* slip: y taken to grow downwards, as in screen coordinates
RawInput_ScreenY(k) ==
    LET x1 == IF "KeyA" \in k THEN -Scale ELSE 0
        x2 == IF "KeyD" \in k THEN Scale ELSE x1
        y1 == IF "KeyW" \in k THEN -Scale ELSE 0
        y2 == IF "KeyS" \in k THEN Scale ELSE y1
    IN  Vec(x2, y2)

\* the four `if keyboard.pressed(..)` statements, in source order: x and y
RawInput(k) ==
    LET x1 == IF "KeyA" \in k THEN -Scale ELSE 0
        x2 == IF "KeyD" \in k THEN Scale ELSE x1
        y1 == IF "KeyW" \in k THEN Scale ELSE 0
        y2 == IF "KeyS" \in k THEN -Scale ELSE y1
    IN  Vec(x2, y2)

\* slip: the KeyS statement placed before the KeyW statement
FaceAfter_DownBeforeUp(k, f) ==
    LET f1 == IF "KeyA" \in k THEN "LEFT" ELSE f
        f2 == IF "KeyD" \in k THEN "RIGHT" ELSE f1
        f3 == IF "KeyS" \in k THEN "DOWN" ELSE f2
        f4 == IF "KeyW" \in k THEN "UP" ELSE f3
    IN  f4

\* slip: the facing is reset to its spawn value before the keys are read
FaceAfter_Reset(k, f) ==
    LET f1 == IF "KeyA" \in k THEN "LEFT" ELSE "DOWN"
        f2 == IF "KeyD" \in k THEN "RIGHT" ELSE f1
        f3 == IF "KeyW" \in k THEN "UP" ELSE f2
        f4 == IF "KeyS" \in k THEN "DOWN" ELSE f3
    IN  f4

\* the same four statements: face_direction.0
FaceAfter(k, f) ==
    LET f1 == IF "KeyA" \in k THEN "LEFT" ELSE f
        f2 == IF "KeyD" \in k THEN "RIGHT" ELSE f1
        f3 == IF "KeyW" \in k THEN "UP" ELSE f2
        f4 == IF "KeyS" \in k THEN "DOWN" ELSE f3
    IN  f4

\* slip: the vector is used as read, without normalize_or_zero
Normalize_Skipped(v) == v

\* Vec2::normalize_or_zero: v * (1 / length), or ZERO when the length is 0
Normalize(v) ==
    LET len == Sqrt(LengthSq(v))
    IN  IF len = 0 THEN ZERO
        ELSE Vec(RoundDiv(v.x * Scale, len), RoundDiv(v.y * Scale, len))

\* Vec2::lerp(self, rhs, s) = self + (rhs - self) * s, with s = rate * delta_seconds;
\* s is not clamped
\* slip: the step taken toward rhs itself, not toward rhs - self
Lerp_AddsTarget(v, rhs, rate, d) ==
    Vec(v.x + RoundDiv(rhs.x * rate * d, TicksPerSecond),
        v.y + RoundDiv(rhs.y * rate * d, TicksPerSecond))

Lerp(v, rhs, rate, d) ==
    Vec(v.x + RoundDiv((rhs.x - v.x) * rate * d, TicksPerSecond),
        v.y + RoundDiv((rhs.y - v.y) * rate * d, TicksPerSecond))

\* slip: the else branch does not clear the flag
Walking_NeverCleared(iv) == TRUE

\* the walking flag written by the if/else on the resolved vector
Walking(iv) == IF iv # ZERO THEN TRUE ELSE FALSE

\* the velocity written by the if/else on the resolved vector
NextVel(v, k, d) ==
    LET iv == Normalize(RawInput(k))
    IN  IF iv # ZERO
        THEN Lerp(v, Vec(iv.x * Speed, iv.y * Speed), Accel, d)
        ELSE Lerp(v, ZERO, Fric, d)

----------------------------------------------------------------------------
(* animate_sprites *)

\* slip: the idle branch wraps modulo 8 like the walking branch
NextIndex_IdleMod8(i, f, w) == IF w THEN ((i + 1) % 8) + WalkBase(f)
                                   ELSE ((i + 1) % 8) + IdleBase(f)

\* slip: the increment is applied after the wrap, so the cycle never wraps
NextIndex_NoWrap(i, f, w) == IF w THEN (i % 8) + 1 + WalkBase(f)
                                 ELSE (i % 4) + 1 + IdleBase(f)

\* slip: a cycle entered from another facing or gait restarts at its base
NextIndex_Restart(i, f, w) ==
    LET base == IF w THEN WalkBase(f) ELSE IdleBase(f)
        len == IF w THEN 8 ELSE 4
    IN  IF i \in base .. (base + len - 1) THEN base + ((i + 1) % len) ELSE base

\* the index written when the timer has just finished
\* slip: the wrap-around left out
NextIndex_NoModulo(i, f, w) ==
    IF w THEN (i + 1) + WalkBase(f) ELSE (i + 1) + IdleBase(f)

NextIndex(i, f, w) == IF w THEN ((i + 1) % 8) + WalkBase(f)
                           ELSE ((i + 1) % 4) + IdleBase(f)

----------------------------------------------------------------------------
(* apply_kinematics *)

\* slip: the velocity integrated over the fixed timestep before it is handed over
KinematicTranslation_TimesDelta(v) ==
    Vec(RoundDiv(v.x * FixedTimestep, TicksPerSecond),
        RoundDiv(v.y * FixedTimestep, TicksPerSecond))

\* transform.translation = Some(vel.0)
KinematicTranslation(v) == v

----------------------------------------------------------------------------
(* update_camera *)

\* Camera2dBundle::default(): the camera starts at the origin, z = 999.9
CameraSpawn == [x |-> 0, y |-> 0, z |-> 999900]

\* positions the physics engine may have given the player's Transform
PlayerPositions == {Vec(0, 0), Vec(15000, 0), Vec(-5000, -10000)}

\* translation.lerp(Vec3(player.x, player.y, camera.z), delta_seconds * lerp_factor)
CameraLerp(c, p, d) ==
    [x |-> c.x + RoundDiv((p.x - c.x) * d * LerpFactor, TicksPerSecond),
     y |-> c.y + RoundDiv((p.y - c.y) * d * LerpFactor, TicksPerSecond),
     z |-> c.z + RoundDiv((c.z - c.z) * d * LerpFactor, TicksPerSecond)]

----------------------------------------------------------------------------
(* setup and the queries of the systems *)

\* slip: the player bundle spawned without its PlayerTag
SetupSpawns_NoPlayerTag ==
    <<{"Camera2dBundle", "MainCameraTag", "CameraValues"},
      {"TextBundle"},
      {"MaterialMesh2dBundle", "RigidBody::Fixed", "Collider", "ColliderTag"},
      {"MaterialMesh2dBundle", "RigidBody::Fixed", "Collider", "ColliderTag"},
      {"SpriteBundle", "TextureAtlas", "AnimationInd", "AnimationTimer",
       "MoveSettings", "FaceDirection", "Velocity",
       "RigidBody::KinematicPositionBased", "Collider",
       "KinematicCharacterController"}>>

\* the five commands.spawn calls of setup, in source order: camera, UI text,
\* two boxes, player
SetupSpawns ==
    <<{"Camera2dBundle", "MainCameraTag", "CameraValues"},
      {"TextBundle"},
      {"MaterialMesh2dBundle", "RigidBody::Fixed", "Collider", "ColliderTag"},
      {"MaterialMesh2dBundle", "RigidBody::Fixed", "Collider", "ColliderTag"},
      {"SpriteBundle", "TextureAtlas", "AnimationInd", "AnimationTimer", "PlayerTag",
       "MoveSettings", "FaceDirection", "Velocity",
       "RigidBody::KinematicPositionBased", "Collider",
       "KinematicCharacterController"}>>

\* the entities of w that carry every component of cs
Query(w, cs) == {e \in DOMAIN w : cs \subseteq w[e]}

\* Query<(&mut Velocity, &mut MoveSettings, &mut FaceDirection), With<PlayerTag>>
PlayerQuery(w) == Query(w, {"Velocity", "MoveSettings", "FaceDirection", "PlayerTag"})

----------------------------------------------------------------------------
(* Frame loop *)

InBound(v) == Abs(v.x) <= VelBound /\ Abs(v.y) <= VelBound

KeyCombos == SUBSET KeyCodes

\* no key, or exactly one of the four keys
SingleKeys == {{}, {"KeyA"}, {"KeyD"}, {"KeyW"}, {"KeyS"}}

\* frame time of the game loop specification after the first update: 50 ms
Deltas == {16}

\* frame times of the held-key specification: 50 ms, 100 ms and 200 ms
DeltasKin == {16, 32, 64}

\* two of the four keys down together
TwoKeys == {k \in KeyCombos : Cardinality(k) = 2}

\* frame times of the key-release specification: 25 ms and 50 ms, for which
\* accel * delta is 0.5 or 1 and fric * delta is 0.375 or 0.75
DeltasConvex == {8, 16}

\* the player's components as spawned by setup, and a timer that has not run
PlayerSpawned ==
    /\ face = "DOWN"
    /\ is_walking = FALSE
    /\ vel = ZERO
    /\ translation = "None"
    /\ index = 0
    /\ elapsed = 0
    /\ times_finished = 0
    /\ raw_input = ZERO
    /\ input_vector = ZERO
    /\ expFace = "DOWN"
    /\ expWalk = FALSE
    /\ expKind = "none"

\* the other entities spawned by setup
SceneSpawned ==
    /\ camera = CameraSpawn
    /\ world = SetupSpawns

\* the frame loop before its first iteration
LoopAtStartup ==
    /\ pc = "Startup"
    /\ keys = {}
    /\ delta = 0
    /\ fixedDue = 0
    /\ fixedDone = 0
    /\ ran = {}
    /\ runs = [s \in Systems |-> 0]
    /\ lastSched = [s \in Systems |-> "none"]

\* state after Startup (setup)
Init == LoopAtStartup /\ PlayerSpawned /\ SceneSpawned

\* One iteration of the App runner begins: the input backend publishes the
\* pressed keys, Time advances by the frame's delta (zero on the first
\* update), and Time<Fixed> adds it to its overstep (any value below the
\* timestep) to decide how many FixedUpdate passes run before Update.  The
\* physics step that closed the previous frame has taken the controller's
\* pending translation.
BeginFrame(KS, DS) ==
    /\ pc \in {"Startup", "FrameEnd"}
    /\ \E k \in KS, d \in (IF pc = "Startup" THEN {0} ELSE DS),
          overstep \in 0 .. (FixedTimestep - 1) :
         /\ InBound(NextVel(vel, k, d))
         /\ keys' = k
         /\ delta' = d
         /\ fixedDue' = (overstep + d) \div FixedTimestep
    /\ translation' = "None"
    /\ fixedDone' = 0
    /\ ran' = {}
    /\ runs' = [s \in Systems |-> 0]
    /\ pc' = IF fixedDue' > 0 /\ SystemsOf("FixedUpdate") # {}
             THEN "FixedUpdate" ELSE "Update"
    /\ UNCHANGED <<lastSched, face, is_walking, vel, raw_input, input_vector,
                   index, elapsed, times_finished, expFace, expWalk, expKind,
                   scene>>

\* The scheduler runs system sys: it belongs to the schedule being run and has
\* not run in this pass.  The pass ends once every system of the schedule ran.
RunSystem(sys) ==
    LET sched == ScheduleOf(sys)
        passDone == (ran \cup {sys}) = SystemsOf(sched)
    IN  /\ pc = sched
        /\ sys \notin ran
        /\ runs' = [runs EXCEPT ![sys] = @ + 1]
        /\ lastSched' = [lastSched EXCEPT ![sys] = sched]
        /\ ran' = IF passDone THEN {} ELSE ran \cup {sys}
        /\ fixedDone' = IF passDone /\ sched = "FixedUpdate"
                        THEN fixedDone + 1 ELSE fixedDone
        /\ pc' = IF ~passDone THEN pc
                 ELSE IF sched = "FixedUpdate" /\ fixedDone + 1 < fixedDue
                      THEN "FixedUpdate"
                 ELSE IF sched = "FixedUpdate" /\ SystemsOf("Update") # {}
                      THEN "Update"
                 ELSE "FrameEnd"
        /\ UNCHANGED <<keys, delta, fixedDue>>

\* single_mut() panics unless exactly one entity matches the query; the
\* panic ends the process
get_player_input ==
    IF Cardinality(PlayerQuery(world)) = 1
    THEN /\ RunSystem("get_player_input")
         /\ raw_input' = RawInput(keys)
         /\ face' = FaceAfter(keys, face)
         /\ input_vector' = Normalize(RawInput(keys))
         /\ is_walking' = Walking(Normalize(RawInput(keys)))
         /\ vel' = NextVel(vel, keys, delta)
         /\ UNCHANGED <<translation, index, elapsed, times_finished,
                        expFace, expWalk, expKind, scene>>
    ELSE /\ pc = ScheduleOf("get_player_input")
         /\ "get_player_input" \notin ran
         /\ pc' = "Aborted"
         /\ UNCHANGED <<keys, delta, fixedDue, fixedDone, ran, runs, lastSched,
                        face, is_walking, vel, raw_input, input_vector,
                        translation, index, elapsed, times_finished,
                        expFace, expWalk, expKind, scene>>

apply_kinematics ==
    /\ RunSystem("apply_kinematics")
    /\ translation' = KinematicTranslation(vel)
    /\ UNCHANGED <<face, is_walking, vel, raw_input, input_vector, index,
                   elapsed, times_finished, expFace, expWalk, expKind, scene>>

animate_sprites ==
    LET e == elapsed + delta
        finished == e >= TimerDuration
    IN  /\ RunSystem("animate_sprites")
        /\ elapsed' = IF finished THEN e % TimerDuration ELSE e
        /\ times_finished' = IF finished THEN e \div TimerDuration ELSE 0
        /\ IF times_finished' > 0
           THEN /\ index' = NextIndex(index, face, is_walking)
                /\ expFace' = face
                /\ expWalk' = is_walking
                /\ expKind' = IF expKind = "none" THEN "first"
                              ELSE IF expFace = face /\ expWalk = is_walking
                                   THEN "same" ELSE "changed"
           ELSE UNCHANGED <<index, expFace, expWalk, expKind>>
        /\ UNCHANGED <<face, is_walking, vel, raw_input, input_vector, translation,
                       scene>>

\* Defined in the source but in no schedule (ScheduleOf), so it is no step of
\* the frame loop.  The player's Transform is owned by the physics engine.
update_camera ==
    /\ RunSystem("update_camera")
    /\ \E p \in PlayerPositions : camera' = CameraLerp(camera, p, delta)
    /\ UNCHANGED <<face, is_walking, vel, raw_input, input_vector, translation,
                   index, elapsed, times_finished, expFace, expWalk, expKind,
                   world>>

----------------------------------------------------------------------------
(* The game loop: any of the 16 key combinations in each frame *)

BeginFrameAny == BeginFrame(KeyCombos, Deltas)

Next ==
    \/ BeginFrameAny
    \/ apply_kinematics
    \/ animate_sprites
    \/ get_player_input

Spec == Init /\ [][Next]_vars

----------------------------------------------------------------------------
(* The game loop with one key held: a single key goes down in the first    *)
(* frame and stays down until it is released; after the release no key is  *)
(* pressed again.  Frame times vary.                                       *)

BeginFrameHeld ==
    BeginFrame(IF pc = "Startup" THEN SingleKeys \ {{}} ELSE {keys, {}}, DeltasKin)

NextKin ==
    \/ BeginFrameHeld
    \/ apply_kinematics
    \/ animate_sprites
    \/ get_player_input

SpecKin == Init /\ [][NextKin]_vars

----------------------------------------------------------------------------
(* The game loop with keys being released: two keys go down in the first   *)
(* frame and from then on keys are only released, one or both at a time,   *)
(* which turns or reverses the input direction before it becomes zero.     *)
(* Frame times are short enough for every interpolation factor to be at    *)
(* most 1.                                                                 *)

BeginFrameReleasing ==
    BeginFrame(IF pc = "Startup" THEN TwoKeys ELSE SUBSET keys, DeltasConvex)

NextConvex ==
    \/ BeginFrameReleasing
    \/ apply_kinematics
    \/ animate_sprites
    \/ get_player_input

SpecConvex == Init /\ [][NextConvex]_vars

----------------------------------------------------------------------------
(* Vocabulary of the properties *)

\* base offset and cycle length of a facing and gait, as the specification
\* tabulates them
CycleBase(f, w) ==
    IF w THEN CASE f = "RIGHT" -> 0 [] f = "LEFT" -> 8 [] f = "DOWN" -> 16 [] f = "UP" -> 24
         ELSE CASE f = "RIGHT" -> 32 [] f = "LEFT" -> 40 [] f = "DOWN" -> 48 [] f = "UP" -> 56
CycleLength(w) == IF w THEN 8 ELSE 4
InCycle(i, f, w) == i \in CycleBase(f, w) .. (CycleBase(f, w) + CycleLength(w) - 1)

\* the animation timer has expired at least once
Expired == expKind # "none"

\* get_player_input has run in the current frame, on the keys of this frame
InputDone == runs["get_player_input"] > 0

\* this step is an execution of the named system
StepOf(sys) == runs'[sys] = runs[sys] + 1

\* this step is an execution of animate_sprites in which the timer expires
ExpiryStep == StepOf("animate_sprites") /\ times_finished' > 0

----------------------------------------------------------------------------
(* Properties of the animation *)

\* C1 as stated: once the timer has expired, the frame index always lies in
\* the cycle of the player's current facing and gait.
C1_IndexInCurrentCycle == Expired => InCycle(index, face, is_walking)

\* C1 amended: once the timer has expired, the frame index always lies in
\* the cycle of the facing and gait that were in force at the latest expiry.
C1_IndexInCycleOfLatestExpiry == Expired => InCycle(index, expFace, expWalk)

\* C1 witness: after an expiry, an input pass has changed facing or gait and
\* the frame is over.
C1_SwitchedAfterExpiry ==
    /\ Expired
    /\ pc = "FrameEnd"
    /\ (face # expFace \/ is_walking # expWalk)

\* C7: when the timer expires with facing and gait as at the previous
\* expiry, the index goes from base+k (k in 0..L-1) to base+((k+1) mod L).
C7_AdvanceWithinCycle ==
    [][(ExpiryStep /\ Expired /\ expFace = face /\ expWalk = is_walking)
        => LET b == CycleBase(face, is_walking)
               L == CycleLength(is_walking)
           IN  /\ index - b \in 0 .. (L - 1)
               /\ index' = b + ((index - b + 1) % L)]_vars

\* C7 witness: the walking-up cycle has wrapped from its last frame to its
\* first at an expiry that found facing and gait unchanged.
C7_WalkCycleWrapped ==
    /\ expKind = "same"
    /\ expWalk
    /\ expFace = "UP"
    /\ index = 24

\* C8: no step other than a timer expiry changes the index, and an expiry
\* that finds facing or gait changed since the previous expiry writes
\* newBase + ((p+1) mod newLength), p the old position in the old cycle.
C8_SwitchKeepsPosition ==
    [][(~ExpiryStep => index' = index)
       /\ ((ExpiryStep /\ Expired /\ (expFace # face \/ expWalk # is_walking))
           => index' = CycleBase(face, is_walking)
                       + ((index - CycleBase(expFace, expWalk) + 1)
                          % CycleLength(is_walking)))]_vars

\* C8 witness: after two idle expiries facing down (position 2) the player
\* walks left, and the expiry that follows shows frame 3 of walking left.
C8_PositionCarriedOver ==
    /\ expKind = "changed"
    /\ expWalk
    /\ expFace = "LEFT"
    /\ index = 11

----------------------------------------------------------------------------
(* Properties of the input pass *)

\* C2: after get_player_input, with at least one of the four keys pressed,
\* the facing is DOWN if down is pressed, else UP if up is, else RIGHT if
\* right is, else LEFT.
C2_FacingIsLastPressed ==
    (InputDone /\ keys # {})
    => face = IF "KeyS" \in keys THEN "DOWN"
              ELSE IF "KeyW" \in keys THEN "UP"
              ELSE IF "KeyD" \in keys THEN "RIGHT"
              ELSE "LEFT"

\* C2 witness: left, right and up pressed together, and the pass has run.
C2_ThreeKeysFaceUp ==
    /\ InputDone
    /\ keys = {"KeyA", "KeyD", "KeyW"}
    /\ face = "UP"

\* C3: after get_player_input the walking flag is true exactly when the
\* normalized input vector of that pass is not (0,0).
C3_WalkingIffNonZero == InputDone => (is_walking <=> input_vector # ZERO)

\* C3 witness: a pass with no key pressed has cleared the flag of a player
\* who was walking.
C3_StoppedWalking ==
    /\ InputDone
    /\ keys = {}
    /\ ~is_walking
    /\ vel # ZERO

\* C6: with both keys of an axis pressed the later one decides the axis:
\* left+right gives x = +1, up+down gives y = -1, before normalization, and
\* the normalized component keeps that sign.
C6_LaterKeyWinsAxis ==
    InputDone
    => /\ ({"KeyA", "KeyD"} \subseteq keys
           => (raw_input.x = Scale /\ input_vector.x > 0))
       /\ ({"KeyW", "KeyS"} \subseteq keys
           => (raw_input.y = -Scale /\ input_vector.y < 0))

\* C6 witness: all four keys pressed, and the pass has run.
C6_AllFourKeys ==
    /\ InputDone
    /\ keys = KeyCodes
    /\ raw_input = Vec(Scale, -Scale)

\* C10: the facing starts as DOWN, is always one of the four directions, is
\* left unchanged by get_player_input when no key is pressed, and is written
\* by no other step.
C10_FacingWrittenByKeysOnly ==
    /\ face = "DOWN"
    /\ [](face \in FacingDirection)
    /\ [][((StepOf("get_player_input") /\ keys = {}) => face' = face)
           /\ (~StepOf("get_player_input") => face' = face)]_vars

\* C10 witness: a pass with no key pressed has run while the player faces left.
C10_IdlePassFacingLeft ==
    /\ InputDone
    /\ keys = {}
    /\ face = "LEFT"

----------------------------------------------------------------------------
(* Properties of the schedule *)

----------------------------------------------------------------------------
(* Properties of the velocity, with one key held and then released *)

\* C4 as stated: from rest, while one key is held, the velocity stays
\* between (0,0) and direction * speed, so its magnitude is at most speed.
C4_SpeedCeiling ==
    keys # {}
    => LET target == Vec(RawInput(keys).x * Speed, RawInput(keys).y * Speed)
       IN  /\ LengthSq(vel) <= (Speed * Scale) * (Speed * Scale)
           /\ Abs(vel.x) <= Abs(target.x) /\ vel.x * target.x >= 0
           /\ Abs(vel.y) <= Abs(target.y) /\ vel.y * target.y >= 0

\* C5 as stated: a pass with no key pressed never increases the magnitude of
\* the velocity and never changes the sign of a component.
C5_DecayNeverOvershoots ==
    [][(StepOf("get_player_input") /\ keys = {})
        => /\ LengthSq(vel') <= LengthSq(vel)
           /\ vel.x * vel'.x >= 0
           /\ vel.y * vel'.y >= 0]_vars

----------------------------------------------------------------------------
(* Properties of the resolved direction *)

\* C11: with exactly one key pressed, get_player_input resolves the vector
\* (-1,0) for left, (1,0) for right, (0,1) for up, (0,-1) for down, and the
\* facing is the direction of that key.
C11_SingleKeyUnitVector ==
    InputDone
    => /\ (keys = {"KeyA"} => (input_vector = Vec(-Scale, 0) /\ face = "LEFT"))
       /\ (keys = {"KeyD"} => (input_vector = Vec(Scale, 0) /\ face = "RIGHT"))
       /\ (keys = {"KeyW"} => (input_vector = Vec(0, Scale) /\ face = "UP"))
       /\ (keys = {"KeyS"} => (input_vector = Vec(0, -Scale) /\ face = "DOWN"))

\* C11 witness: up alone is pressed, and the pass has run.
C11_UpAlone ==
    /\ InputDone
    /\ keys = {"KeyW"}
    /\ input_vector = Vec(0, Scale)

\* both axes of the resolved vector are active
Diagonal(v) == v.x # 0 /\ v.y # 0

\* C12: when a key combination activates both axes, the resolved vector has
\* magnitude 1 and the target velocity has magnitude speed, each to the
\* nearest unit of the representation, as under single-axis input.
C12_DiagonalNormalized ==
    (InputDone /\ Diagonal(raw_input))
    => /\ Diagonal(input_vector)
       /\ Sqrt(LengthSq(input_vector)) = Scale
       /\ Abs(Sqrt(LengthSq(Vec(input_vector.x * Speed, input_vector.y * Speed)))
              - Speed * Scale) <= Speed

\* C12 witness: up and right pressed together, and the pass has run.
C12_UpRight ==
    /\ InputDone
    /\ keys = {"KeyD", "KeyW"}
    /\ input_vector = Vec(707, 707)

----------------------------------------------------------------------------
(* Properties of the camera *)

\* C13 as stated: the camera is moved toward the player on each tick, that
\* is, update_camera has run in every frame that is over.
C13_CameraFollowsEachTick ==
    pc = "FrameEnd" => runs["update_camera"] > 0

----------------------------------------------------------------------------
(* Properties of the animation timer *)

\* the index after n advances with facing f and gait w
RECURSIVE AdvanceTimes(_, _, _, _)
AdvanceTimes(i, f, w, n) ==
    IF n = 0 THEN i ELSE AdvanceTimes(NextIndex(i, f, w), f, w, n - 1)

\* C14 as stated: a tick of animate_sprites advances the index once for each
\* timer interval completed during the tick (twice when the delta spans two
\* intervals) and leaves it alone when no interval completed.
C14_AdvancesEqualExpiries ==
    [][StepOf("animate_sprites")
       => index' = AdvanceTimes(index, face, is_walking, times_finished')]_vars

----------------------------------------------------------------------------
(* Properties of the World *)

\* C15: in every state there is exactly one player, one camera and two
\* static obstacles among the five entities spawned at startup, and
\* get_player_input's single_mut never aborts the process.
C15_EntitiesPersist ==
    /\ Cardinality(PlayerQuery(world)) = 1
    /\ Cardinality(Query(world, {"Camera2dBundle"})) = 1
    /\ Cardinality(Query(world, {"RigidBody::Fixed", "Collider"})) = 2
    /\ DOMAIN world = 1 .. 5
    /\ pc # "Aborted"

\* a frame is over in which get_player_input looked the player up
C15_InputFoundPlayer ==
    pc = "FrameEnd" /\ InputDone /\ PlayerQuery(world) = {5}

----------------------------------------------------------------------------
(* Properties of apply_kinematics *)

\* C16: a step of apply_kinematics sets the controller's pending translation
\* to exactly the current velocity and leaves the velocity, the facing, the
\* walking flag and the frame index unchanged.
C16_TranslationIsVelocity ==
    [][StepOf("apply_kinematics")
       => (translation' = vel /\ UNCHANGED <<vel, face, is_walking, index>>)]_vars

\* a fixed tick has handed a non-zero velocity to the controller
C16_DisplacementPending ==
    runs["apply_kinematics"] > 0 /\ vel # ZERO /\ translation = vel

----------------------------------------------------------------------------
(* Range of the frame index *)

\* C17: in every state the frame index addresses a cell of the 8x8 grid.
C17_IndexOnGrid == index \in 0 .. (8 * 8 - 1)

\* the last frame of the idle cycle facing up, the highest index in use
C17_LastIdleUpFrame == index = 59 /\ expFace = "UP" /\ ~expWalk /\ Expired

----------------------------------------------------------------------------
(* Velocity smoothing with factors in [0,1] *)

\* accel * delta <= 1 when a key is pressed, fric * delta <= 1 when none is
FactorInUnitInterval ==
    IF keys # {} THEN Accel * delta <= TicksPerSecond
                 ELSE Fric * delta <= TicksPerSecond

\* c lies between a and b
Between(a, b, c) == (a <= c /\ c <= b) \/ (b <= c /\ c <= a)

====
